---- MODULE Spec2Model ----
(***************************************************************************)
(* Covisibility graph and spanning tree of Structure-PL-SLAM               *)
(* (src/core/data/graph_node.cc).  One graph_node per keyframe; keyframes  *)
(* are referred to by their id_, nullptr by NULL.                          *)
(***************************************************************************)
EXTENDS Integers, Sequences, FiniteSets, TLC

\* ------------------------------------------------------------------ bounds
NumKeyfrms == 4
MaxShared == 3
MaxOps == 2
NumThreads == 2
MaxPts == 4
MaxIter == 2
MaxWindowOps == 3
MaxLandmarks == 2
MaxCoord == 2
MaxKeypts == 2
MaxObservers == 1
MaxCorrespondences == 2
MaxSqError == 2

\* The fixed weight threshold of graph_node (declared in graph_node.h).
weight_thr_ == 1

NULL == -1

Keyfrms == 0 .. (NumKeyfrms - 1)
Weights == 1 .. MaxShared
Threads == 1 .. NumThreads

VARIABLES
    will_be_erased_,                 \* keyframe::will_be_erased()
    cannot_be_erased_,               \* keyframe flag set by set_not_to_be_erased()
    connected_keyfrms_and_weights_,  \* node -> (keyframe -> weight)
    ordered_covisibilities_,         \* node -> sequence of keyframes
    ordered_weights_,                \* node -> sequence of weights
    spanning_parent_,                \* node -> keyframe or NULL
    spanning_children_,              \* node -> set of keyframes
    spanning_parent_is_not_set_,     \* node -> BOOLEAN
    loop_edges_,                     \* node -> set of keyframes
    fault,                           \* "none", or how the process stopped
    repaired,                        \* nodes whose recover_spanning_connections returned
    last,                            \* the call that produced this state
    nops,                            \* number of calls made so far
    mtx_,                            \* node -> the thread that holds mtx_, or NULL
    threads,                         \* thread -> the call it is in and its locals
    sim3_solver,                     \* the members of one sim3_solver and its call
    orb_extractor_node               \* one orb_extractor_node and the result of divide_node

graph_vars == <<connected_keyfrms_and_weights_, ordered_covisibilities_,
                ordered_weights_, spanning_parent_, spanning_children_,
                spanning_parent_is_not_set_, loop_edges_, cannot_be_erased_, fault>>
vars == <<will_be_erased_, cannot_be_erased_,
          connected_keyfrms_and_weights_, ordered_covisibilities_, ordered_weights_,
          spanning_parent_, spanning_children_, spanning_parent_is_not_set_,
          loop_edges_, fault, repaired, last, nops, mtx_, threads, sim3_solver, orb_extractor_node>>

\* The graph as one value: the operations below are functions on it.
Graph ==
    [cw |-> connected_keyfrms_and_weights_,
     oc |-> ordered_covisibilities_,
     ow |-> ordered_weights_,
     sp |-> spanning_parent_,
     sc |-> spanning_children_,
     ns |-> spanning_parent_is_not_set_,
     le |-> loop_edges_,
     nb |-> cannot_be_erased_,
     fault |-> fault]

Commit0(G) ==
    /\ connected_keyfrms_and_weights_ = G.cw
    /\ ordered_covisibilities_ = G.oc
    /\ ordered_weights_ = G.ow
    /\ spanning_parent_ = G.sp
    /\ spanning_children_ = G.sc
    /\ spanning_parent_is_not_set_ = G.ns
    /\ loop_edges_ = G.le
    /\ cannot_be_erased_ = G.nb
    /\ fault = G.fault

Commit(G) ==
    /\ connected_keyfrms_and_weights_' = G.cw
    /\ ordered_covisibilities_' = G.oc
    /\ ordered_weights_' = G.ow
    /\ spanning_parent_' = G.sp
    /\ spanning_children_' = G.sc
    /\ spanning_parent_is_not_set_' = G.ns
    /\ loop_edges_' = G.le
    /\ cannot_be_erased_' = G.nb
    /\ fault' = G.fault

\* ------------------------------------------------------------- containers
\* std::map and std::set iterate keyframe pointers in address order; the
\* model takes the address order to be the order of the ids.
MinOf(S) == CHOOSE x \in S : \A y \in S : x <= y

\* an order that puts the lower keyframe last among equal weights
PairLess_ties_reversed(p, q) == p[1] < q[1] \/ (p[1] = q[1] /\ p[2] > q[2])

\* operator< of std::pair<unsigned int, keyframe*>
PairLess(p, q) == p[1] < q[1] \/ (p[1] = q[1] /\ p[2] < q[2])

MaxPair(S) == CHOOSE p \in S : \A q \in S \ {p} : PairLess(q, p)

\* std::sort(v.rbegin(), v.rend()): descending by (weight, keyframe)
RECURSIVE SortDescending(_)
SortDescending(S) ==
    IF S = {} THEN <<>>
    ELSE LET p == MaxPair(S) IN <<p>> \o SortDescending(S \ {p})

RECURSIVE Firsts(_)
Firsts(s) == IF s = <<>> THEN <<>> ELSE <<s[1][1]>> \o Firsts(Tail(s))

RECURSIVE Seconds(_)
Seconds(s) == IF s = <<>> THEN <<>> ELSE <<s[1][2]>> \o Seconds(Tail(s))

Range(s) == {s[i] : i \in DOMAIN s}

EmptyMap == [k \in {} |-> 0]

MapPut(m, k, w) == [x \in (DOMAIN m) \cup {k} |-> IF x = k THEN w ELSE m[x]]

MapErase(m, k) == [x \in (DOMAIN m) \ {k} |-> m[x]]

\* -------------------------------------------------- covisibility (36-219)
update_covisibility_orders(G, A) ==
    LET s == SortDescending({<<G.cw[A][k], k>> : k \in DOMAIN G.cw[A]})
    IN [G EXCEPT !.oc[A] = Seconds(s), !.ow[A] = Firsts(s)]

add_connection_accumulating(G, A, keyfrm, weight) ==
    LET m == G.cw[A]
        sum == IF keyfrm \in DOMAIN m THEN m[keyfrm] + weight ELSE weight
    IN update_covisibility_orders([G EXCEPT !.cw[A] = MapPut(m, keyfrm, sum)], A)

add_connection(G, A, keyfrm, weight) ==
    LET m == G.cw[A]
        need_update == keyfrm \notin DOMAIN m \/ m[keyfrm] # weight
    IN IF need_update
       THEN update_covisibility_orders([G EXCEPT !.cw[A] = MapPut(m, keyfrm, weight)], A)
       ELSE G

erase_connection(G, A, keyfrm) ==
    IF keyfrm \in DOMAIN G.cw[A]
    THEN update_covisibility_orders([G EXCEPT !.cw[A] = MapErase(G.cw[A], keyfrm)], A)
    ELSE G

RECURSIVE EraseFromNeighbours(_, _, _)
EraseFromNeighbours(G, A, keys) ==
    IF keys = {} THEN G
    ELSE LET k == MinOf(keys)
         IN EraseFromNeighbours(erase_connection(G, k, A), A, keys \ {k})

erase_all_connections(G, A) ==
    LET G1 == EraseFromNeighbours(G, A, DOMAIN G.cw[A])
    IN [G1 EXCEPT !.cw[A] = EmptyMap, !.oc[A] = <<>>, !.ow[A] = <<>>]

\* lines 94-121 count, for every other keyframe, the landmarks (not marked
\* will_be_erased) it observes together with the owner.  The counts are the
\* call's input: KeyfrmWeights(A, others) is every map keyfrm_weights can be
\* when the keyframes of `others` exist, from the empty map (nothing shared)
\* to MaxShared landmarks shared with each.
KeyfrmWeights(A, others) ==
    UNION {[S -> Weights] : S \in SUBSET (others \ {A})}

\* lines 128-149: one pass over keyfrm_weights in key order
RECURSIVE ScanWeights(_, _, _)
ScanWeights(kw, keys, acc) ==
    IF keys = {} THEN acc
    ELSE LET keyfrm == MinOf(keys)
             weight == kw[keyfrm]
             hit == acc.max_weight <= weight
         IN ScanWeights(kw, keys \ {keyfrm},
                [max_weight |-> IF hit THEN weight ELSE acc.max_weight,
                 nearest_covisibility |-> IF hit THEN keyfrm ELSE acc.nearest_covisibility,
                 pairs |-> IF weight_thr_ < weight
                           THEN acc.pairs \cup {<<weight, keyfrm>>}
                           ELSE acc.pairs])

\* the kept pairs without the fallback of lines 150-154
weight_covisibility_pairs_unpadded(kw) ==
    ScanWeights(kw, DOMAIN kw,
        [max_weight |-> 0, nearest_covisibility |-> NULL, pairs |-> {}]).pairs

\* lines 150-154: the kept (weight, keyframe) pairs
weight_covisibility_pairs(kw) ==
    LET r == ScanWeights(kw, DOMAIN kw,
                 [max_weight |-> 0, nearest_covisibility |-> NULL, pairs |-> {}])
    IN IF r.pairs = {} THEN {<<r.max_weight, r.nearest_covisibility>>} ELSE r.pairs

\* the keyframe of highest count that comes first in the map
nearest_covisibility_first(kw) ==
    MinOf({k \in DOMAIN kw : \A j \in DOMAIN kw : kw[j] <= kw[k]})

nearest_covisibility(kw) ==
    ScanWeights(kw, DOMAIN kw,
        [max_weight |-> 0, nearest_covisibility |-> NULL, pairs |-> {}]).nearest_covisibility

\* lines 156-162
RECURSIVE MirrorConnections(_, _, _)
MirrorConnections(G, A, pairs) ==
    IF pairs = {} THEN G
    ELSE LET p == MaxPair(pairs)
         IN MirrorConnections(add_connection(G, p[2], A, p[1]), A, pairs \ {p})

\* line 180: the map stored as the node's connections
StoredConnections(kw) == kw

\* lines 184-191
FirstTimeParent(G, A, nearest) ==
    IF G.ns[A] /\ A # 0
    THEN [G EXCEPT !.sp[A] = nearest,
                   !.sc[nearest] = @ \cup {A},
                   !.ns[A] = FALSE]
    ELSE G

update_connections(G, kw, A) ==
    IF DOMAIN kw = {} THEN G
    ELSE LET pairs == weight_covisibility_pairs(kw)
             G1 == MirrorConnections(G, A, pairs)
             s == SortDescending(pairs)
             G2 == [G1 EXCEPT !.cw[A] = StoredConnections(kw),
                              !.oc[A] = Seconds(s),
                              !.ow[A] = Firsts(s)]
         IN FirstTimeParent(G2, A, nearest_covisibility(kw))

\* ------------------------------------------------- queries (221-285)
get_covisibilities(G, A) == G.oc[A]

get_top_n_covisibilities_from_back(oc, num_covisibilities) ==
    IF Len(oc) < num_covisibilities THEN oc
    ELSE SubSeq(oc, Len(oc) - num_covisibilities + 1, Len(oc))

get_top_n_covisibilities(oc, num_covisibilities) ==
    IF Len(oc) < num_covisibilities THEN oc
    ELSE SubSeq(oc, 1, num_covisibilities)

\* std::upper_bound(first, first + len, value, std::greater<unsigned int>()):
\* the binary search of the standard library; offsets count from 0.
RECURSIVE UpperBoundGreater(_, _, _, _)
UpperBoundGreater(s, first, len, value) ==
    IF len = 0 THEN first
    ELSE LET half == len \div 2
             middle == first + half
         IN IF value > s[middle + 1]
            THEN UpperBoundGreater(s, first, half, value)
            ELSE UpperBoundGreater(s, middle + 1, len - half - 1, value)

get_covisibilities_over_weight(oc, ow, weight) ==
    IF oc = <<>> THEN <<>>
    ELSE LET itr == UpperBoundGreater(ow, 0, Len(ow), weight)
         IN IF itr = Len(ow) THEN <<>>
            ELSE SubSeq(oc, 1, itr)

get_weight(G, A, keyfrm) ==
    IF keyfrm \in DOMAIN G.cw[A] THEN G.cw[A][keyfrm] ELSE 0

\* ------------------------------------------- spanning tree (287-317)
set_spanning_parent(G, A, keyfrm) == [G EXCEPT !.sp[A] = keyfrm]

\* change_spanning_parent without the registration with the new parent
change_spanning_parent_unregistered(G, A, keyfrm) == [G EXCEPT !.sp[A] = keyfrm]

change_spanning_parent(G, A, keyfrm) ==
    [G EXCEPT !.sp[A] = keyfrm, !.sc[keyfrm] = @ \cup {A}]

add_spanning_child(G, A, keyfrm) == [G EXCEPT !.sc[A] = @ \cup {keyfrm}]

erase_spanning_child(G, A, keyfrm) == [G EXCEPT !.sc[A] = @ \ {keyfrm}]

\* ------------------------------------------------ tree repair (319-390)
\* lines 424-440: keyfrms_1 is a std::set, keyfrms_2 a vector
RECURSIVE extract_intersection(_, _)
extract_intersection(keyfrms_1, keyfrms_2) ==
    IF keyfrms_1 = {} THEN <<>>
    ELSE LET keyfrm_1 == MinOf(keyfrms_1)
         IN SelectSeq(keyfrms_2, LAMBDA keyfrm_2 : keyfrm_1 = keyfrm_2)
            \o extract_intersection(keyfrms_1 \ {keyfrm_1}, keyfrms_2)

NoMax ==
    [max_weight |-> 0, max_weight_parent |-> NULL, max_weight_child |-> NULL,
     max_is_found |-> FALSE, hung |-> FALSE]

\* a scan that keeps the candidate of lowest weight
RECURSIVE ScanCandidates_lowest(_, _, _, _)
ScanCandidates_lowest(G, spanning_child, intersection, acc) ==
    IF intersection = <<>> THEN acc
    ELSE LET parent_candidate == Head(intersection)
             weight == get_weight(G, spanning_child, parent_candidate)
         IN ScanCandidates_lowest(G, spanning_child, Tail(intersection),
                IF weight > 0 /\ (~acc.max_is_found \/ weight < acc.max_weight)
                THEN [acc EXCEPT !.max_weight = weight,
                                 !.max_weight_parent = parent_candidate,
                                 !.max_weight_child = spanning_child,
                                 !.max_is_found = TRUE]
                ELSE acc)

\* lines 348-358
RECURSIVE ScanCandidates(_, _, _, _)
ScanCandidates(G, spanning_child, intersection, acc) ==
    IF intersection = <<>> THEN acc
    ELSE LET parent_candidate == Head(intersection)
             weight == get_weight(G, spanning_child, parent_candidate)
         IN ScanCandidates(G, spanning_child, Tail(intersection),
                IF acc.max_weight < weight
                THEN [acc EXCEPT !.max_weight = weight,
                                 !.max_weight_parent = parent_candidate,
                                 !.max_weight_child = spanning_child,
                                 !.max_is_found = TRUE]
                ELSE acc)

\* lines 338-341
SkipChild(kfer, spanning_child) == kfer[spanning_child]

\* lines 336-359.  The caller holds the owner's mutex: a query of a child that
\* is the owner itself locks that mutex again and never returns (hung).
RECURSIVE ScanChildren(_, _, _, _, _, _)
ScanChildren(G, kfer, owner, pending, new_parent_candidates, acc) ==
    IF pending = {} THEN acc
    ELSE LET spanning_child == MinOf(pending)
         IN IF SkipChild(kfer, spanning_child)
            THEN ScanChildren(G, kfer, owner, pending \ {spanning_child},
                              new_parent_candidates, acc)
            ELSE IF spanning_child = owner
            THEN [acc EXCEPT !.hung = TRUE]
            ELSE ScanChildren(G, kfer, owner, pending \ {spanning_child},
                    new_parent_candidates,
                    ScanCandidates(G, spanning_child,
                        extract_intersection(new_parent_candidates,
                                             get_covisibilities(G, spanning_child)),
                        acc))

\* child->graph_node_->change_spanning_parent(new_parent) called with the
\* owner's mutex held (lines 364, 381): it locks the child's mutex, assigns the
\* parent, then locks the new parent's mutex in add_spanning_child.
RepairChange(G, owner, child, new_parent) ==
    IF child = owner THEN [G |-> G, hung |-> TRUE]
    ELSE IF new_parent = owner \/ new_parent = child
    THEN [G |-> [G EXCEPT !.sp[child] = new_parent], hung |-> TRUE]
    ELSE [G |-> change_spanning_parent(G, child, new_parent), hung |-> FALSE]

\* lines 328-373
RECURSIVE RepairLoop(_, _, _)
RepairLoop(R, kfer, owner) ==
    IF R.G.sc[owner] = {} THEN R
    ELSE LET m == ScanChildren(R.G, kfer, owner, R.G.sc[owner], R.cands, NoMax)
         IN IF m.hung THEN [R EXCEPT !.hung = TRUE]
            ELSE IF ~m.max_is_found THEN R
            ELSE LET c == RepairChange(R.G, owner, m.max_weight_child, m.max_weight_parent)
                 IN IF c.hung THEN [R EXCEPT !.G = c.G, !.hung = TRUE]
                    ELSE RepairLoop(
                           [G |-> [c.G EXCEPT !.sc[owner] = @ \ {m.max_weight_child}],
                            cands |-> R.cands \cup {m.max_weight_child},
                            log |-> Append(R.log, <<m.max_weight_child, m.max_weight_parent>>),
                            hung |-> FALSE],
                           kfer, owner)

\* a repair that leaves the children without candidate where they are
ForceReparent_skipped(R, owner, pending) == R

\* lines 375-383
RECURSIVE ForceReparent(_, _, _)
ForceReparent(R, owner, pending) ==
    IF pending = {} \/ R.hung THEN R
    ELSE LET spanning_child == MinOf(pending)
             c == RepairChange(R.G, owner, spanning_child, R.G.sp[owner])
         IN ForceReparent(
                [R EXCEPT !.G = c.G, !.hung = c.hung,
                          !.log = IF c.hung THEN @
                                  ELSE Append(@, <<spanning_child, R.G.sp[owner]>>)],
                owner, pending \ {spanning_child})

\* lines 385-389
FinishRepair(R, owner) ==
    IF R.hung THEN R
    ELSE LET G1 == [R.G EXCEPT !.sc[owner] = {}]
             parent == G1.sp[owner]
         IN IF parent = owner THEN [R EXCEPT !.G = G1, !.hung = TRUE]
            ELSE [R EXCEPT !.G = erase_spanning_child(G1, parent, owner)]

\* The whole of recover_spanning_connections on node A.  A node without a
\* parent dereferences nullptr (lines 345/381/389); a call that locks a mutex
\* its own thread holds never returns.
recover_spanning_connections(G, kfer, A) ==
    IF G.sp[A] = NULL
    THEN [G |-> [G EXCEPT !.fault = "null_dereference"], cands |-> {}, log |-> <<>>,
          hung |-> FALSE]
    ELSE LET R0 == [G |-> G, cands |-> {G.sp[A]}, log |-> <<>>, hung |-> FALSE]
             R1 == RepairLoop(R0, kfer, A)
             R2 == ForceReparent(R1, A, R1.G.sc[A])
             R3 == FinishRepair(R2, A)
         IN IF R3.hung THEN [R3 EXCEPT !.G.fault = "self_deadlock"] ELSE R3

\* lines 328-373: the number of rounds of the while loop that re-parent a child
RepairRounds(G, kfer, A) ==
    IF G.sp[A] = NULL THEN 0
    ELSE Len(RepairLoop([G |-> G, cands |-> {G.sp[A]}, log |-> <<>>, hung |-> FALSE],
                        kfer, A).log)

\* -------------------------------------------------- loop edges (404-422)
\* keyframe::set_not_to_be_erased()
set_not_to_be_erased(G, A) == [G EXCEPT !.nb[A] = TRUE]

\* add_loop_edge without set_not_to_be_erased
add_loop_edge_erasable(G, A, keyfrm) == [G EXCEPT !.le[A] = @ \cup {keyfrm}]

add_loop_edge(G, A, keyfrm) ==
    set_not_to_be_erased([G EXCEPT !.le[A] = @ \cup {keyfrm}], A)

get_loop_edges(G, A) == G.le[A]

has_loop_edge(G, A) == G.le[A] # {}

\* ------------------------------------------------------------ the program
NoCall == [op |-> "none", node |-> NULL, arg |-> NULL, weight |-> 0,
           kw |-> EmptyMap, parent |-> NULL, children |-> {}, log |-> <<>>,
           result |-> <<>>, before |-> 0, rounds |-> 0, landmarks |-> <<>>]

Call(op, A, arg) == [NoCall EXCEPT !.op = op, !.node = A, !.arg = arg]

Idle ==
    [pc |-> "idle", node |-> NULL, arg |-> NULL, weight |-> 0, kw |-> EmptyMap,
     pairs |-> {}, cands |-> {}, todo |-> {}, acc |-> NoMax,
     child |-> NULL, parent |-> NULL]

\* No orb_extractor_node has been constructed.
NoExtractorNode ==
    [pc |-> "none", pt_begin_ |-> <<0, 0>>, pt_end_ |-> <<0, 0>>, keypts_ |-> <<>>,
     child_nodes |-> <<>>]

\* No sim3_solver has been constructed.
NoSolver ==
    [pc |-> "none", num_common_pts_ |-> 0, min_num_inliers_ |-> 0,
     max_num_iter |-> 0, iter |-> 0, max_num_inliers |-> 0, counts |-> <<>>,
     solution_is_valid_ |-> FALSE,
     best_rot_12_ |-> "unset", best_trans_12_ |-> "unset", best_scale_12_ |-> "unset",
     best_iter |-> NULL,
     chi_sq_x_sigma_sq_1_ |-> <<>>, chi_sq_x_sigma_sq_2_ |-> <<>>,
     error_in_1 |-> <<>>, error_in_2 |-> <<>>, inliers |-> <<>>, num_inliers |-> 0]

\* No call is in progress: every mutex is free.
Quiescent ==
    /\ mtx_ = [k \in Keyfrms |-> NULL]
    /\ threads = [t \in Threads |-> Idle]

\* The graph after construction (lines 33-34): every node empty, no parent.
Constructed ==
    [cw |-> [k \in Keyfrms |-> EmptyMap],
     oc |-> [k \in Keyfrms |-> <<>>],
     ow |-> [k \in Keyfrms |-> <<>>],
     sp |-> [k \in Keyfrms |-> NULL],
     sc |-> [k \in Keyfrms |-> {}],
     ns |-> [k \in Keyfrms |-> TRUE],
     le |-> [k \in Keyfrms |-> {}],
     nb |-> [k \in Keyfrms |-> FALSE],
     fault |-> "none"]

Init ==
    /\ Commit0(Constructed)
    /\ will_be_erased_ = [k \in Keyfrms |-> FALSE]
    /\ repaired = {}
    /\ last = NoCall
    /\ nops = 0
    /\ Quiescent
    /\ orb_extractor_node = NoExtractorNode
    /\ sim3_solver = NoSolver

Running == fault = "none" /\ nops < MaxOps

Step(G, call) ==
    /\ Commit(G)
    /\ last' = call
    /\ nops' = nops + 1
    /\ repaired' = IF call.op = "recover_spanning_connections" /\ G.fault = "none"
                   THEN repaired \cup {call.node}
                   ELSE repaired
    /\ UNCHANGED <<will_be_erased_, mtx_, threads, sim3_solver, orb_extractor_node>>

UpdateConnections(A, kw) ==
    /\ Running
    /\ Step(update_connections(Graph, kw, A),
            [Call("update_connections", A, NULL) EXCEPT !.kw = kw])

AddConnection(A, keyfrm, weight) ==
    /\ Running
    /\ Step(add_connection(Graph, A, keyfrm, weight),
            [Call("add_connection", A, keyfrm) EXCEPT
                 !.weight = weight, !.before = get_weight(Graph, A, keyfrm)])

EraseConnection(A, keyfrm) ==
    /\ Running
    /\ Step(erase_connection(Graph, A, keyfrm), Call("erase_connection", A, keyfrm))


EraseAllConnections(A) ==
    /\ Running
    /\ Step(erase_all_connections(Graph, A), Call("erase_all_connections", A, NULL))


\* line 290: assert(!spanning_parent_) stops a build with assertions; a build
\* without them (NDEBUG) goes on to line 291.
SetSpanningParent(A, keyfrm) ==
    \/ /\ Running
       /\ spanning_parent_[A] = NULL
       /\ Step(set_spanning_parent(Graph, A, keyfrm),
               Call("set_spanning_parent", A, keyfrm))
    \/ /\ Running
       /\ spanning_parent_[A] # NULL
       /\ Step([Graph EXCEPT !.fault = "assertion"],
               Call("set_spanning_parent", A, keyfrm))
    \/ /\ Running
       /\ spanning_parent_[A] # NULL
       /\ Step(set_spanning_parent(Graph, A, keyfrm),
               Call("set_spanning_parent", A, keyfrm))

ChangeSpanningParent(A, keyfrm) ==
    /\ Running
    /\ Step(change_spanning_parent(Graph, A, keyfrm),
            Call("change_spanning_parent", A, keyfrm))

AddSpanningChild(A, keyfrm) ==
    /\ Running
    /\ Step(add_spanning_child(Graph, A, keyfrm), Call("add_spanning_child", A, keyfrm))


EraseSpanningChild(A, keyfrm) ==
    /\ Running
    /\ Step(erase_spanning_child(Graph, A, keyfrm),
            Call("erase_spanning_child", A, keyfrm))

RecoverSpanningConnections(A) ==
    /\ Running
    /\ LET R == recover_spanning_connections(Graph, will_be_erased_, A)
       IN Step(R.G, [Call("recover_spanning_connections", A, NULL) EXCEPT
                        !.parent = spanning_parent_[A],
                        !.children = spanning_children_[A],
                        !.log = R.log,
                        !.rounds = RepairRounds(Graph, will_be_erased_, A)])

GetCovisibilitiesOverWeight(A, weight) ==
    /\ Running
    /\ Step(Graph,
            [Call("get_covisibilities_over_weight", A, NULL) EXCEPT
                !.weight = weight,
                !.result = get_covisibilities_over_weight(
                               ordered_covisibilities_[A], ordered_weights_[A], weight)])

GetTopNCovisibilities(A, num_covisibilities) ==
    /\ Running
    /\ Step(Graph,
            [Call("get_top_n_covisibilities", A, num_covisibilities) EXCEPT
                !.result = get_top_n_covisibilities(ordered_covisibilities_[A],
                                                    num_covisibilities)])

AddLoopEdge(A, keyfrm) ==
    /\ Running
    /\ Step(add_loop_edge(Graph, A, keyfrm), Call("add_loop_edge", A, keyfrm))


\* keyframe::prepare_for_erasure() marks the keyframe
KeyframeWillBeErased(k) ==
    /\ Running
    /\ ~will_be_erased_[k]
    /\ will_be_erased_' = [will_be_erased_ EXCEPT ![k] = TRUE]
    /\ last' = Call("will_be_erased", k, NULL)
    /\ nops' = nops + 1
    /\ UNCHANGED <<graph_vars, repaired, mtx_, threads, sim3_solver, orb_extractor_node>>

Next ==
    \/ \E A \in Keyfrms : \E kw \in KeyfrmWeights(A, Keyfrms) : UpdateConnections(A, kw)
    \/ \E A \in Keyfrms : \E k \in Keyfrms \ {A} : \E w \in Weights : AddConnection(A, k, w)
    \/ \E A \in Keyfrms : \E k \in Keyfrms \ {A} : EraseConnection(A, k)
    \/ \E A \in Keyfrms : EraseAllConnections(A)
    \/ \E A \in Keyfrms : \E k \in Keyfrms \ {A} : SetSpanningParent(A, k)
    \/ \E A \in Keyfrms : \E k \in Keyfrms \ {A} : ChangeSpanningParent(A, k)
    \/ \E A \in Keyfrms : \E k \in Keyfrms \ {A} : AddSpanningChild(A, k)
    \/ \E A \in Keyfrms : \E k \in Keyfrms \ {A} : EraseSpanningChild(A, k)
    \/ \E A \in Keyfrms : RecoverSpanningConnections(A)
    \/ \E A \in Keyfrms : \E k \in Keyfrms \ {A} : AddLoopEdge(A, k)
    \/ \E k \in Keyfrms : KeyframeWillBeErased(k)

Spec == Init /\ [][Next]_vars

\* The callers that keep both sides: recomputation and teardown, and a query.
NextCov ==
    \/ \E A \in Keyfrms : \E kw \in KeyfrmWeights(A, Keyfrms) : UpdateConnections(A, kw)
    \/ \E A \in Keyfrms : EraseAllConnections(A)
    \/ \E A \in Keyfrms : \E w \in 0 .. MaxShared : GetCovisibilitiesOverWeight(A, w)
    \/ \E A \in Keyfrms : \E n \in 0 .. NumKeyfrms : GetTopNCovisibilities(A, n)

SpecCov == Init /\ [][NextCov]_vars

\* ------------------------------------------------- the map as it is built
\* Keyframes enter the map in the order of their ids, and update_connections
\* runs on each as it enters, when only the older keyframes exist.
RECURSIVE BuiltMaps(_)
BuiltMaps(k) ==
    IF k = 0 THEN {Constructed}
    ELSE UNION {{update_connections(G, kw, k) : kw \in KeyfrmWeights(k, 0 .. (k - 1))}
                : G \in BuiltMaps(k - 1)}

InitTree ==
    /\ \E G \in BuiltMaps(NumKeyfrms - 1) : Commit0(G)
    /\ will_be_erased_ = [k \in Keyfrms |-> FALSE]
    /\ repaired = {}
    /\ last = NoCall
    /\ nops = 0
    /\ Quiescent
    /\ orb_extractor_node = NoExtractorNode
    /\ sim3_solver = NoSolver

NextTree ==
    \/ \E A \in Keyfrms : RecoverSpanningConnections(A)
    \/ \E A \in Keyfrms : \E k \in Keyfrms \ {A} : ChangeSpanningParent(A, k)
    \/ \E k \in Keyfrms : KeyframeWillBeErased(k)

SpecTree == InitTree /\ [][NextTree]_vars

\* ------------------------------------------------ threads and node mutexes
\* Each thread runs one graph operation at a time.  A step of a thread goes
\* from one std::lock_guard<std::mutex> acquisition to the next: it takes the
\* mutex when it is free, runs the code up to the next acquisition, and gives
\* back the mutexes whose guards went out of scope on the way.
Held(t) == {k \in Keyfrms : mtx_[k] = t}

\* lines 82-85: the keys the range-for of erase_all_connections has not reached;
\* the map is ordered by key and the iterator follows the live map
UnvisitedConnections(th) ==
    {k \in DOMAIN connected_keyfrms_and_weights_[th.node] : k > th.arg}

\* the next (weight, keyframe) pair of the mirror loop (lines 157-162)
NextMirror(pairs) == CHOOSE p \in pairs : \A q \in pairs : p[2] <= q[2]

\* The node whose mutex the thread acquires next, NULL when there is none.
Wants(t) ==
    LET th == threads[t]
    IN CASE th.pc = "change_add_child" -> th.arg
         [] th.pc = "update_mirror" -> NextMirror(th.pairs)[2]
         [] th.pc = "update_store" -> th.node
         [] th.pc = "update_add_child" -> th.parent
         [] th.pc = "recover_scan" ->
                IF will_be_erased_[MinOf(th.todo)] THEN NULL ELSE MinOf(th.todo)
         [] th.pc \in {"recover_change", "recover_force"} -> th.child
         [] th.pc \in {"recover_change_add_child", "recover_force_add_child"} -> th.parent
         [] th.pc = "recover_erase_child" -> spanning_parent_[th.node]
         [] th.pc = "erase_all_loop" ->
                IF UnvisitedConnections(th) = {} THEN NULL
                ELSE MinOf(UnvisitedConnections(th))
         [] OTHER -> NULL

Blocked(t) == Wants(t) # NULL /\ mtx_[Wants(t)] # NULL

Lock(locks, k, t) == [locks EXCEPT ![k] = t]
Unlock(locks, k) == [locks EXCEPT ![k] = NULL]

ConcCommit(t, G, th, locks, calls, done) ==
    /\ Commit(G)
    /\ threads' = [threads EXCEPT ![t] = th]
    /\ mtx_' = locks
    /\ nops' = nops + calls
    /\ repaired' = repaired \cup done
    /\ UNCHANGED <<will_be_erased_, last, sim3_solver, orb_extractor_node>>

\* The count maps the threads pass to update_connections.
ConcKeyfrmWeights(A) ==
    {kw \in KeyfrmWeights(A, Keyfrms) : Cardinality(DOMAIN kw) <= 1}

\* A thread enters an operation: the step runs up to the second acquisition.
Entering(t) == fault = "none" /\ nops < MaxOps /\ threads[t].pc = "idle"

\* A thread inside an operation, at pc, with the next mutex free or not needed.
At(t, pcs) ==
    /\ fault = "none"
    /\ threads[t].pc \in pcs
    /\ Wants(t) # NULL => mtx_[Wants(t)] = NULL

\* lines 36-59, 195-219: two critical sections of the same mutex, no other
ConcAddConnection(t, A, keyfrm, weight) ==
    /\ Entering(t)
    /\ mtx_[A] = NULL
    /\ ConcCommit(t, add_connection(Graph, A, keyfrm, weight), Idle, mtx_, 1, {})

\* lines 61-77
ConcEraseConnection(t, A, keyfrm) ==
    /\ Entering(t)
    /\ mtx_[A] = NULL
    /\ ConcCommit(t, erase_connection(Graph, A, keyfrm), Idle, mtx_, 1, {})

\* lines 253-272
ConcGetCovisibilitiesOverWeight(t, A, weight) ==
    /\ Entering(t)
    /\ mtx_[A] = NULL
    /\ ConcCommit(t, Graph, Idle, mtx_, 1, {})

\* lines 302-303: the guard stays in scope for line 304
ConcChangeSpanningParent(t, A, keyfrm) ==
    /\ Entering(t)
    /\ mtx_[A] = NULL
    /\ ConcCommit(t, [Graph EXCEPT !.sp[A] = keyfrm],
                  [Idle EXCEPT !.pc = "change_add_child", !.node = A, !.arg = keyfrm],
                  Lock(mtx_, A, t), 1, {})

\* line 304 -> lines 307-311, then the guard of line 302 ends
ConcChangeAddChild(t) ==
    /\ At(t, {"change_add_child"})
    /\ LET th == threads[t]
       IN ConcCommit(t, add_spanning_child(Graph, th.arg, th.node), Idle,
                     Unlock(mtx_, th.node), 0, {})

\* lines 94-154: the counting and the threshold; no graph mutex is taken
ConcUpdateConnections(t, A, kw) ==
    /\ Entering(t)
    /\ IF DOMAIN kw = {}
       THEN ConcCommit(t, Graph, Idle, mtx_, 1, {})
       ELSE ConcCommit(t, Graph,
                [Idle EXCEPT !.pc = "update_mirror", !.node = A, !.kw = kw,
                             !.pairs = weight_covisibility_pairs(kw),
                             !.parent = nearest_covisibility(kw)],
                mtx_, 1, {})

\* lines 157-162: one add_connection on a covisibility
ConcUpdateMirror(t) ==
    /\ At(t, {"update_mirror"})
    /\ LET th == threads[t]
           p == NextMirror(th.pairs)
           rest == th.pairs \ {p}
       IN ConcCommit(t, add_connection(Graph, p[2], th.node, p[1]),
                     [th EXCEPT !.pairs = rest,
                                !.pc = IF rest = {} THEN "update_store" ELSE @],
                     mtx_, 0, {})

\* lines 177-187
ConcUpdateStore(t) ==
    /\ At(t, {"update_store"})
    /\ LET th == threads[t]
           A == th.node
           s == SortDescending(weight_covisibility_pairs(th.kw))
           G1 == [Graph EXCEPT !.cw[A] = StoredConnections(th.kw),
                               !.oc[A] = Seconds(s),
                               !.ow[A] = Firsts(s)]
       IN IF G1.ns[A] /\ A # 0
          THEN ConcCommit(t, [G1 EXCEPT !.sp[A] = th.parent],
                          [th EXCEPT !.pc = "update_add_child"], Lock(mtx_, A, t), 0, {})
          ELSE ConcCommit(t, G1, Idle, mtx_, 0, {})

\* line 188 -> lines 307-311, line 189, then the guard of line 178 ends
ConcUpdateAddChild(t) ==
    /\ At(t, {"update_add_child"})
    /\ LET th == threads[t]
           G1 == add_spanning_child(Graph, th.parent, th.node)
       IN ConcCommit(t, [G1 EXCEPT !.ns[th.node] = FALSE], Idle,
                     Unlock(mtx_, th.node), 0, {})

\* The head of the while loop (line 328) and what follows a round without
\* maximum (lines 367-383), for the node's children sc.
RecoverRound(th, G) ==
    IF G.sc[th.node] = {}
    THEN [th EXCEPT !.pc = "recover_erase_child", !.todo = {}]
    ELSE [th EXCEPT !.pc = "recover_scan", !.todo = G.sc[th.node], !.acc = NoMax]

RecoverForce(th, G, pending) ==
    IF pending = {}
    THEN [th EXCEPT !.pc = "recover_erase_child", !.todo = {}]
    ELSE [th EXCEPT !.pc = "recover_force", !.todo = pending,
                    !.child = MinOf(pending), !.parent = G.sp[th.node]]

\* lines 321-328: the guard stays in scope to the end of the function
ConcRecoverSpanningConnections(t, A) ==
    /\ Entering(t)
    /\ mtx_[A] = NULL
    /\ ConcCommit(t, Graph,
                  RecoverRound([Idle EXCEPT !.node = A, !.cands = {spanning_parent_[A]}],
                               Graph),
                  Lock(mtx_, A, t), 1, {})

\* lines 336-359: one child of the for loop; get_covisibilities and get_weight
\* take the child's mutex
ConcRecoverScan(t) ==
    /\ At(t, {"recover_scan"})
    /\ LET th == threads[t]
           spanning_child == MinOf(th.todo)
           rest == th.todo \ {spanning_child}
           acc == IF SkipChild(will_be_erased_, spanning_child) THEN th.acc
                  ELSE ScanCandidates(Graph, spanning_child,
                           extract_intersection(th.cands,
                               get_covisibilities(Graph, spanning_child)),
                           th.acc)
           th1 == [th EXCEPT !.todo = rest, !.acc = acc]
       IN ConcCommit(t, Graph,
              IF rest # {} THEN th1
              ELSE IF acc.max_is_found
              THEN [th1 EXCEPT !.pc = "recover_change",
                               !.child = acc.max_weight_child,
                               !.parent = acc.max_weight_parent]
              ELSE RecoverForce(th1, Graph, spanning_children_[th.node]),
              mtx_, 0, {})

\* lines 364 / 381 -> lines 302-303
ConcRecoverChange(t) ==
    /\ At(t, {"recover_change", "recover_force"})
    /\ LET th == threads[t]
       IN ConcCommit(t, [Graph EXCEPT !.sp[th.child] = th.parent],
              [th EXCEPT !.pc = IF @ = "recover_change" THEN "recover_change_add_child"
                                ELSE "recover_force_add_child"],
              Lock(mtx_, th.child, t), 0, {})

\* line 304 -> lines 307-311, then lines 365-366 or the next forced child;
\* keyfrm->graph_node_ with keyfrm == nullptr ends the process
ConcRecoverChangeAddChild(t) ==
    /\ At(t, {"recover_change_add_child", "recover_force_add_child"})
    /\ LET th == threads[t]
           G1 == add_spanning_child(Graph, th.parent, th.child)
           G2 == [G1 EXCEPT !.sc[th.node] = @ \ {th.child}]
           rest == th.todo \ {th.child}
       IN IF th.parent = NULL
          THEN ConcCommit(t, [Graph EXCEPT !.fault = "null_dereference"], th, mtx_, 0, {})
          ELSE IF th.pc = "recover_change_add_child"
          THEN ConcCommit(t, G2,
                   RecoverRound([th EXCEPT !.cands = @ \cup {th.child}], G2),
                   Unlock(mtx_, th.child), 0, {})
          ELSE ConcCommit(t, IF rest = {} THEN [G1 EXCEPT !.sc[th.node] = {}] ELSE G1,
                   RecoverForce(th, G1, rest), Unlock(mtx_, th.child), 0, {})

\* line 389 -> lines 313-317, then the guard of line 321 ends
ConcRecoverEraseChild(t) ==
    /\ At(t, {"recover_erase_child"})
    /\ LET th == threads[t]
           parent == spanning_parent_[th.node]
       IN IF parent = NULL
          THEN ConcCommit(t, [Graph EXCEPT !.fault = "null_dereference"], th, mtx_, 0, {})
          ELSE ConcCommit(t, erase_spanning_child(Graph, parent, th.node), Idle,
                          Unlock(mtx_, th.node), 0, {th.node})

\* The maps the threads start from: every keyframe after the first shares
\* MaxShared landmarks with one older keyframe; the newest keyframe may not
\* have run update_connections yet.
RECURSIVE ChainMaps(_)
\* line 79-82: erase_all_connections takes no mutex; the range-for starts on
\* the node's own map
ConcEraseAllConnections(t, A) ==
    /\ Entering(t)
    /\ ConcCommit(t, Graph,
                  [Idle EXCEPT !.pc = "erase_all_loop", !.node = A,
                               !.kw = connected_keyfrms_and_weights_[A]],
                  mtx_, 1, {})

\* lines 82-85: one iteration; erase_connection takes the neighbour's mutex
ConcEraseAllErase(t) ==
    /\ At(t, {"erase_all_loop"})
    /\ UnvisitedConnections(threads[t]) # {}
    /\ LET th == threads[t]
           k == MinOf(UnvisitedConnections(th))
       IN ConcCommit(t, erase_connection(Graph, k, th.node),
                     [th EXCEPT !.arg = k], mtx_, 0, {})

\* lines 82-85: the map was written by another thread while the range-for
\* holds an iterator into it, with no mutex ordering the two: undefined
ConcEraseAllRace(t) ==
    /\ At(t, {"erase_all_loop"})
    /\ connected_keyfrms_and_weights_[threads[t].node] # threads[t].kw
    /\ ConcCommit(t, [Graph EXCEPT !.fault = "data_race"], threads[t], mtx_, 0, {})

\* lines 82, 87: the range-for ends and the map is cleared, no mutex held
ConcEraseAllClearMap(t) ==
    /\ At(t, {"erase_all_loop"})
    /\ UnvisitedConnections(threads[t]) = {}
    /\ ConcCommit(t, [Graph EXCEPT !.cw[threads[t].node] = EmptyMap],
                  [threads[t] EXCEPT !.pc = "erase_all_clear_covisibilities"],
                  mtx_, 0, {})

\* line 88, no mutex held
ConcEraseAllClearCovisibilities(t) ==
    /\ At(t, {"erase_all_clear_covisibilities"})
    /\ ConcCommit(t, [Graph EXCEPT !.oc[threads[t].node] = <<>>],
                  [threads[t] EXCEPT !.pc = "erase_all_clear_weights"], mtx_, 0, {})

\* line 89, no mutex held
ConcEraseAllClearWeights(t) ==
    /\ At(t, {"erase_all_clear_weights"})
    /\ ConcCommit(t, [Graph EXCEPT !.ow[threads[t].node] = <<>>], Idle, mtx_, 0, {})

ChainMaps(k) ==
    IF k = 0 THEN {Constructed}
    ELSE UNION {{update_connections(G, [j \in {older} |-> MaxShared], k)
                    : older \in 0 .. (k - 1)} : G \in ChainMaps(k - 1)}

InitConc ==
    /\ \E G \in ChainMaps(NumKeyfrms - 1) \cup ChainMaps(NumKeyfrms - 2) : Commit0(G)
    /\ will_be_erased_ = [k \in Keyfrms |-> FALSE]
    /\ repaired = {}
    /\ last = NoCall
    /\ nops = 0
    /\ Quiescent
    /\ orb_extractor_node = NoExtractorNode
    /\ sim3_solver = NoSolver

NextConc ==
    \/ \E t \in Threads : \E A \in Keyfrms : \E k \in Keyfrms \ {A} : \E w \in Weights :
           ConcAddConnection(t, A, k, w)
    \/ \E t \in Threads : \E A \in Keyfrms : \E k \in Keyfrms \ {A} :
           ConcEraseConnection(t, A, k)
    \/ \E t \in Threads : \E A \in Keyfrms : \E w \in 0 .. MaxShared :
           ConcGetCovisibilitiesOverWeight(t, A, w)
    \/ \E t \in Threads : \E A \in Keyfrms : \E k \in Keyfrms \ {A} :
           ConcChangeSpanningParent(t, A, k)
    \/ \E t \in Threads : ConcChangeAddChild(t)
    \/ \E t \in Threads : \E A \in Keyfrms : \E kw \in ConcKeyfrmWeights(A) :
           ConcUpdateConnections(t, A, kw)
    \/ \E t \in Threads : ConcUpdateMirror(t)
    \/ \E t \in Threads : ConcUpdateStore(t)
    \/ \E t \in Threads : ConcUpdateAddChild(t)
    \/ \E t \in Threads : \E A \in Keyfrms : ConcRecoverSpanningConnections(t, A)
    \/ \E t \in Threads : ConcRecoverScan(t)
    \/ \E t \in Threads : ConcRecoverChange(t)
    \/ \E t \in Threads : ConcRecoverChangeAddChild(t)
    \/ \E t \in Threads : ConcRecoverEraseChild(t)
    \/ \E t \in Threads : \E A \in Keyfrms : ConcEraseAllConnections(t, A)
    \/ \E t \in Threads : ConcEraseAllErase(t)
    \/ \E t \in Threads : ConcEraseAllRace(t)
    \/ \E t \in Threads : ConcEraseAllClearMap(t)
    \/ \E t \in Threads : ConcEraseAllClearCovisibilities(t)
    \/ \E t \in Threads : ConcEraseAllClearWeights(t)

SpecConc == InitConc /\ [][NextConc]_vars

\* ------------------------------------------ sim3_solver (sim3_solver.cc)
\* Matrices, vectors and scales are kept by where their value comes from:
\* "Zero" (Mat33_t::Zero(), Vec3_t::Zero(), 0.0), "Identity", or "in_sac", the
\* output of compute_Sim3 in the iteration best_iter.
node_vars == <<will_be_erased_, cannot_be_erased_,
               connected_keyfrms_and_weights_, ordered_covisibilities_, ordered_weights_,
               spanning_parent_, spanning_children_, spanning_parent_is_not_set_,
               loop_edges_, fault, repaired, last, nops, mtx_, threads,
               orb_extractor_node>>

\* line 130
PreCheckFails(num_common_pts, min_num_inliers) ==
    num_common_pts < 3 \/ num_common_pts < min_num_inliers

\* the gate of line 177 with <= for <
EstimationFails_strict(max_num_inliers, min_num_inliers) ==
    max_num_inliers <= min_num_inliers

\* line 177
EstimationFails(max_num_inliers, min_num_inliers) ==
    max_num_inliers < min_num_inliers

\* lines 125-128 and 180-183
ResetBest(s) ==
    [s EXCEPT !.solution_is_valid_ = FALSE,
              !.best_rot_12_ = "Zero",
              !.best_trans_12_ = "Zero",
              !.best_scale_12_ = "Zero",
              !.best_iter = NULL]

\* lines 168-174
UpdateBest(s, num_inliers) ==
    IF s.max_num_inliers < num_inliers
    THEN [s EXCEPT !.max_num_inliers = num_inliers,
                   !.best_rot_12_ = "in_sac",
                   !.best_trans_12_ = "in_sac",
                   !.best_scale_12_ = "in_sac",
                   !.best_iter = s.iter]
    ELSE s

\* lines 40-119: the constructor counts the common points; the members that
\* find_via_ransac assigns first have no value yet.
ConstructedSolvers ==
    {[NoSolver EXCEPT !.pc = "constructed",
                      !.num_common_pts_ = n,
                      !.min_num_inliers_ = m,
                      !.solution_is_valid_ = v]
        : n \in 0 .. MaxPts, m \in 0 .. (MaxPts + 1), v \in BOOLEAN}

InitSolver ==
    /\ Commit0(Constructed)
    /\ will_be_erased_ = [k \in Keyfrms |-> FALSE]
    /\ repaired = {}
    /\ last = NoCall
    /\ nops = 0
    /\ Quiescent
    /\ orb_extractor_node = NoExtractorNode
    /\ sim3_solver \in ConstructedSolvers

\* lines 121-134: the entry of find_via_ransac
FindViaRansac(max_num_iter) ==
    /\ sim3_solver.pc = "constructed"
    /\ LET s == [ResetBest(sim3_solver) EXCEPT !.max_num_inliers = 0,
                                               !.max_num_iter = max_num_iter,
                                               !.iter = 0]
       IN sim3_solver' =
              IF PreCheckFails(s.num_common_pts_, s.min_num_inliers_)
              THEN [s EXCEPT !.pc = "returned"]
              ELSE [s EXCEPT !.pc = "ransac_loop"]
    /\ UNCHANGED node_vars

\* lines 145-175: one iteration; count_inliers returns num_inliers
RansacIteration(num_inliers) ==
    /\ sim3_solver.pc = "ransac_loop"
    /\ sim3_solver.iter < sim3_solver.max_num_iter
    /\ num_inliers <= sim3_solver.num_common_pts_
    /\ sim3_solver' = [UpdateBest(sim3_solver, num_inliers) EXCEPT
                          !.iter = @ + 1,
                          !.counts = Append(@, num_inliers)]
    /\ UNCHANGED node_vars

\* lines 177-190
RansacReturn ==
    /\ sim3_solver.pc = "ransac_loop"
    /\ sim3_solver.iter = sim3_solver.max_num_iter
    /\ sim3_solver' =
           IF EstimationFails(sim3_solver.max_num_inliers, sim3_solver.min_num_inliers_)
           THEN [ResetBest(sim3_solver) EXCEPT !.pc = "returned"]
           ELSE [sim3_solver EXCEPT !.solution_is_valid_ = TRUE, !.pc = "returned"]
    /\ UNCHANGED node_vars

NextSolver ==
    \/ \E max_num_iter \in 0 .. MaxIter : FindViaRansac(max_num_iter)
    \/ \E num_inliers \in 0 .. MaxPts : RansacIteration(num_inliers)
    \/ RansacReturn

SpecSolver == InitSolver /\ [][NextSolver]_vars

\* ------------------------------------ the landmark scan (lines 94-126)
\* A slot of owner_keyfrm_->get_landmarks(): a null pointer, or a landmark
\* with its will_be_erased() flag and the keyframes of get_observations().
NullLandmark == [null |-> TRUE, will_be_erased |-> FALSE, observations |-> {}]

Landmarks ==
    {NullLandmark} \cup
    {[null |-> FALSE, will_be_erased |-> e, observations |-> obs] :
        e \in BOOLEAN,
        obs \in {S \in SUBSET Keyfrms : Cardinality(S) <= MaxObservers}}

LandmarkLists == UNION {[1 .. n -> Landmarks] : n \in 0 .. MaxLandmarks}

\* a scan that counts the landmarks marked will_be_erased as well
CountLandmark_erased_too(keyfrm_weights, lm, A) ==
    IF lm.null THEN keyfrm_weights
    ELSE LET seen == lm.observations \ {A}
         IN [k \in (DOMAIN keyfrm_weights) \cup seen |->
                (IF k \in DOMAIN keyfrm_weights THEN keyfrm_weights[k] ELSE 0)
                + (IF k \in seen THEN 1 ELSE 0)]

\* lines 98-120: one landmark of the loop
CountLandmark(keyfrm_weights, lm, A) ==
    IF lm.null \/ lm.will_be_erased THEN keyfrm_weights
    ELSE LET seen == lm.observations \ {A}
         IN [k \in (DOMAIN keyfrm_weights) \cup seen |->
                (IF k \in DOMAIN keyfrm_weights THEN keyfrm_weights[k] ELSE 0)
                + (IF k \in seen THEN 1 ELSE 0)]

\* lines 94-121
RECURSIVE CountLandmarks(_, _, _)
CountLandmarks(keyfrm_weights, landmarks, A) ==
    IF landmarks = <<>> THEN keyfrm_weights
    ELSE CountLandmarks(CountLandmark(keyfrm_weights, Head(landmarks), A),
                        Tail(landmarks), A)

\* lines 92-193, from the landmarks of the keyframe
UpdateConnectionsFromLandmarks(A, landmarks) ==
    /\ Running
    /\ LET keyfrm_weights == CountLandmarks(EmptyMap, landmarks, A)
       IN Step(update_connections(Graph, keyfrm_weights, A),
               [Call("update_connections", A, NULL) EXCEPT
                   !.kw = keyfrm_weights, !.landmarks = landmarks])

NextLandmarks ==
    \E A \in Keyfrms : \E landmarks \in LandmarkLists :
        UpdateConnectionsFromLandmarks(A, landmarks)

SpecLandmarks == Init /\ [][NextLandmarks]_vars

\* ------------------- add_connection / erase_connection, section by section
\* The two critical sections of add_connection and erase_connection as two
\* steps: the map update (lines 39-52, 64-70), then update_covisibility_orders
\* (lines 195-219), with the mutex free in between.
SharedNode == 0

WindowEntering(t) == fault = "none" /\ nops < MaxWindowOps /\ threads[t].pc = "idle"

\* the thread goes on to update_covisibility_orders when need_update is set
AfterMapUpdate(need_update, A, map) ==
    IF need_update
    THEN [Idle EXCEPT !.pc = "update_covisibility_orders", !.node = A, !.kw = map]
    ELSE Idle

\* lines 38-52
ConcAddConnectionMap(t, A, keyfrm, weight) ==
    /\ WindowEntering(t)
    /\ mtx_[A] = NULL
    /\ LET m == connected_keyfrms_and_weights_[A]
           need_update == keyfrm \notin DOMAIN m \/ m[keyfrm] # weight
           map == IF need_update THEN MapPut(m, keyfrm, weight) ELSE m
       IN ConcCommit(t, [Graph EXCEPT !.cw[A] = map],
                     AfterMapUpdate(need_update, A, map), mtx_, 1, {})

\* lines 63-70
ConcEraseConnectionMap(t, A, keyfrm) ==
    /\ WindowEntering(t)
    /\ mtx_[A] = NULL
    /\ LET m == connected_keyfrms_and_weights_[A]
           need_update == keyfrm \in DOMAIN m
           map == IF need_update THEN MapErase(m, keyfrm) ELSE m
       IN ConcCommit(t, [Graph EXCEPT !.cw[A] = map],
                     AfterMapUpdate(need_update, A, map), mtx_, 1, {})

\* a rebuild from the map as the thread left it in its own map update
OrdersSource_own_update(th) == th.kw

\* lines 202-205: the rebuild reads the map as it is now
OrdersSource(th) == connected_keyfrms_and_weights_[th.node]

\* lines 54-58, 72-76, 195-219
ConcUpdateCovisibilityOrders(t) ==
    /\ At(t, {"update_covisibility_orders"})
    /\ mtx_[threads[t].node] = NULL
    /\ LET A == threads[t].node
           G == update_covisibility_orders([Graph EXCEPT !.cw[A] = OrdersSource(threads[t])], A)
       IN /\ Commit([G EXCEPT !.cw[A] = connected_keyfrms_and_weights_[A]])
          /\ threads' = [threads EXCEPT ![t] = Idle]
          /\ last' = [Call("update_covisibility_orders", A, NULL) EXCEPT
                         !.kw = threads[t].kw]
          /\ UNCHANGED <<will_be_erased_, mtx_, nops, repaired, sim3_solver, orb_extractor_node>>

NextWindow ==
    \/ \E t \in Threads : \E keyfrm \in Keyfrms \ {SharedNode} : \E weight \in Weights :
           ConcAddConnectionMap(t, SharedNode, keyfrm, weight)
    \/ \E t \in Threads : \E keyfrm \in Keyfrms \ {SharedNode} :
           ConcEraseConnectionMap(t, SharedNode, keyfrm)
    \/ \E t \in Threads : ConcUpdateCovisibilityOrders(t)

SpecWindow == Init /\ [][NextWindow]_vars

\* -------------------------------------------- count_inliers (290-325)
\* squared reprojection errors and chi-square thresholds, in the same unit
SqErrors == 0 .. MaxSqError
ChiSqThresholds == 1 .. MaxSqError

\* std::vector<bool>::resize(n, false): entries already there keep their value
Resize(inliers, n) ==
    [i \in 1 .. n |-> IF i <= Len(inliers) THEN inliers[i] ELSE FALSE]

\* a gate that tests the error in image 2 only
InlierCheck_one_sided(error_in_2, error_in_1, chi_sq_x_sigma_sq_2, chi_sq_x_sigma_sq_1) ==
    error_in_2 < chi_sq_x_sigma_sq_2

\* line 317
InlierCheck(error_in_2, error_in_1, chi_sq_x_sigma_sq_2, chi_sq_x_sigma_sq_1) ==
    error_in_2 < chi_sq_x_sigma_sq_2 /\ error_in_1 < chi_sq_x_sigma_sq_1

\* lines 307-322: the loop from correspondence i on; acc holds inliers and
\* num_inliers
RECURSIVE InlierLoop(_, _, _, _, _)
InlierLoop(s, error_in_2, error_in_1, i, acc) ==
    IF i > s.num_common_pts_ THEN acc
    ELSE InlierLoop(s, error_in_2, error_in_1, i + 1,
             IF InlierCheck(error_in_2[i], error_in_1[i],
                            s.chi_sq_x_sigma_sq_2_[i], s.chi_sq_x_sigma_sq_1_[i])
             THEN [inliers |-> [acc.inliers EXCEPT ![i] = TRUE],
                   num_inliers |-> acc.num_inliers + 1]
             ELSE acc)

\* lines 290-325, on the squared errors of the two reprojections
count_inliers(s, error_in_2, error_in_1, inliers) ==
    InlierLoop(s, error_in_2, error_in_1, 1,
               [inliers |-> Resize(inliers, s.num_common_pts_), num_inliers |-> 0])

\* lines 40-119: a solver with its thresholds per correspondence
SolversWithThresholds ==
    UNION {{[NoSolver EXCEPT !.pc = "constructed", !.num_common_pts_ = n,
                             !.chi_sq_x_sigma_sq_1_ = c1, !.chi_sq_x_sigma_sq_2_ = c2]
               : c1 \in [1 .. n -> ChiSqThresholds], c2 \in [1 .. n -> ChiSqThresholds]}
           : n \in 0 .. MaxCorrespondences}

InitInliers ==
    /\ Commit0(Constructed)
    /\ will_be_erased_ = [k \in Keyfrms |-> FALSE]
    /\ repaired = {}
    /\ last = NoCall
    /\ nops = 0
    /\ Quiescent
    /\ orb_extractor_node = NoExtractorNode
    /\ sim3_solver \in SolversWithThresholds

\* lines 161-165: count_inliers on a new vector, for the errors of one
\* estimated transform
CountInliers(error_in_2, error_in_1) ==
    /\ sim3_solver.pc = "constructed"
    /\ LET r == count_inliers(sim3_solver, error_in_2, error_in_1, <<>>)
       IN sim3_solver' = [sim3_solver EXCEPT !.pc = "counted",
                                             !.error_in_2 = error_in_2,
                                             !.error_in_1 = error_in_1,
                                             !.inliers = r.inliers,
                                             !.num_inliers = r.num_inliers]
    /\ UNCHANGED node_vars

NextInliers ==
    \E error_in_2 \in [1 .. sim3_solver.num_common_pts_ -> SqErrors] :
        \E error_in_1 \in [1 .. sim3_solver.num_common_pts_ -> SqErrors] :
            CountInliers(error_in_2, error_in_1)

SpecInliers == InitInliers /\ [][NextInliers]_vars

\* ------------------------------- orb_extractor_node::divide_node (31-80)
\* Corners are integer pixels <<x, y>>.  A keypoint is [x, y, id]: x and y
\* its float position counted in half pixels, id its place in keypts_.
Corners == (0 .. MaxCoord) \X (0 .. MaxCoord)

Keypts == [x : 0 .. (2 * MaxCoord + 1), y : 0 .. (2 * MaxCoord + 1)]

KeyptLists ==
    UNION {{[i \in 1 .. n |-> [x |-> f[i].x, y |-> f[i].y, id |-> i]] : f \in [1 .. n -> Keypts]}
           : n \in 0 .. MaxKeypts}

\* cvCeil(d / 2.0) for d >= 0
CeilHalf(d) == (d + 1) \div 2

\* an index that takes the bit of x for y and the bit of y for x
ChildIndex_swapped(pt_begin, half_x, half_y, keypt) ==
    (IF 2 * (pt_begin[1] + half_x) <= keypt.x THEN 2 ELSE 0)
    + (IF 2 * (pt_begin[2] + half_y) <= keypt.y THEN 1 ELSE 0)

\* lines 66-75
ChildIndex(pt_begin, half_x, half_y, keypt) ==
    (IF 2 * (pt_begin[1] + half_x) <= keypt.x THEN 1 ELSE 0)
    + (IF 2 * (pt_begin[2] + half_y) <= keypt.y THEN 2 ELSE 0)

\* lines 33-80; child_nodes[idx + 1] is child_nodes.at(idx)
divide_node(node) ==
    LET pt_begin_ == node.pt_begin_
        pt_end_ == node.pt_end_
        half_x == CeilHalf(pt_end_[1] - pt_begin_[1])
        half_y == CeilHalf(pt_end_[2] - pt_begin_[2])
        pt_top == <<pt_begin_[1] + half_x, pt_begin_[2]>>
        pt_left == <<pt_begin_[1], pt_begin_[2] + half_y>>
        pt_center == <<pt_begin_[1] + half_x, pt_begin_[2] + half_y>>
        pt_right == <<pt_end_[1], pt_begin_[2] + half_y>>
        pt_bottom == <<pt_begin_[1] + half_x, pt_end_[2]>>
        borders == <<[pt_begin_ |-> pt_begin_, pt_end_ |-> pt_center],
                     [pt_begin_ |-> pt_top, pt_end_ |-> pt_right],
                     [pt_begin_ |-> pt_left, pt_end_ |-> pt_bottom],
                     [pt_begin_ |-> pt_center, pt_end_ |-> pt_end_]>>
    IN [idx \in 1 .. 4 |->
           [pt_begin_ |-> borders[idx].pt_begin_,
            pt_end_ |-> borders[idx].pt_end_,
            keypts_ |-> SelectSeq(node.keypts_,
                           LAMBDA keypt :
                               ChildIndex(pt_begin_, half_x, half_y, keypt) = idx - 1)]]

\* a node whose patch has pt_begin_ <= pt_end_ in both coordinates
ExtractorNodes ==
    {[NoExtractorNode EXCEPT !.pc = "constructed", !.pt_begin_ = b, !.pt_end_ = e,
                             !.keypts_ = keypts]
        : b \in Corners,
          e \in Corners,
          keypts \in KeyptLists}

InitDivide ==
    /\ Commit0(Constructed)
    /\ will_be_erased_ = [k \in Keyfrms |-> FALSE]
    /\ repaired = {}
    /\ last = NoCall
    /\ nops = 0
    /\ mtx_ = [k \in Keyfrms |-> NULL]
    /\ threads = [t \in Threads |-> Idle]
    /\ sim3_solver = NoSolver
    /\ orb_extractor_node \in ExtractorNodes
    /\ orb_extractor_node.pt_begin_[1] <= orb_extractor_node.pt_end_[1]
    /\ orb_extractor_node.pt_begin_[2] <= orb_extractor_node.pt_end_[2]

DivideNode ==
    /\ orb_extractor_node.pc = "constructed"
    /\ orb_extractor_node' = [orb_extractor_node EXCEPT
                                 !.pc = "divided",
                                 !.child_nodes = divide_node(orb_extractor_node)]
    /\ UNCHANGED <<graph_vars, will_be_erased_, repaired, last, nops, mtx_, threads,
                   sim3_solver>>

NextDivide == DivideNode

SpecDivide == InitDivide /\ [][NextDivide]_vars

\* ---------------------------------------------------------------- claims
IsDescending(ow) == \A i \in DOMAIN ow : \A j \in DOMAIN ow : i < j => ow[i] >= ow[j]

\* C1: for every pair of keyframes A and B, A's connections map holds B with
\* weight w exactly when B's connections map holds A with the same weight w,
\* after any sequence of recomputations and teardowns.
C1_ConnectionSymmetry ==
    \A A \in Keyfrms : \A B \in DOMAIN connected_keyfrms_and_weights_[A] :
        /\ A \in DOMAIN connected_keyfrms_and_weights_[B]
        /\ connected_keyfrms_and_weights_[B][A] = connected_keyfrms_and_weights_[A][B]

OrderedCacheOf(A) ==
    LET cw == connected_keyfrms_and_weights_[A]
        oc == ordered_covisibilities_[A]
        ow == ordered_weights_[A]
    IN /\ Len(oc) = Len(ow)
       /\ Range(oc) = DOMAIN cw
       /\ Len(oc) = Cardinality(DOMAIN cw)
       /\ \A i \in DOMAIN oc : ow[i] = cw[oc[i]]
       /\ IsDescending(ow)

\* C2: after every completed mutating operation the ordered neighbour and
\* weight lists of every node have equal length, list exactly the keyframes of
\* the node's connections map with their weights, and are non-increasing.
C2_OrderedCache == \A A \in Keyfrms : OrderedCacheOf(A)

\* The neighbours of the ordered list whose weight is strictly above t.
StrictlyOver(oc, ow, t) ==
    SubSeq(oc, 1, Cardinality({i \in DOMAIN ow : ow[i] > t}))

\* C3: get_covisibilities_over_weight(t) returns exactly the prefix of the
\* ordered neighbours whose weight is strictly greater than t.
C3_OverWeightIsStrictPrefix ==
    last.op = "get_covisibilities_over_weight" =>
        last.result = StrictlyOver(ordered_covisibilities_[last.node],
                                   ordered_weights_[last.node], last.weight)

\* The keyframes reached from k in 1 .. n steps along spanning_parent_.
RECURSIVE AncestorsWithin(_, _)
AncestorsWithin(k, n) ==
    IF n = 0 \/ spanning_parent_[k] = NULL THEN {}
    ELSE {spanning_parent_[k]} \cup AncestorsWithin(spanning_parent_[k], n - 1)

Ancestors(k) == AncestorsWithin(k, NumKeyfrms)

ParentHasChild(Y) ==
    spanning_parent_[Y] # NULL => Y \in spanning_children_[spanning_parent_[Y]]

C5_SpanningTreeAcyclic ==
    \A k \in Keyfrms :
        /\ k \notin Ancestors(k)
        /\ (k # 0 /\ spanning_parent_[k] # NULL /\ ~will_be_erased_[k])
               => 0 \in Ancestors(k)

\* C8: after recover_spanning_connections returns on a node X with parent P,
\* every former child of X was re-parented exactly once, to P or to another
\* former child; none keeps X as parent and none is left without a parent.
C8_RepairCoverage ==
    (last.op = "recover_spanning_connections" /\ fault = "none") =>
        \A c \in last.children :
            /\ Cardinality({i \in DOMAIN last.log : last.log[i][1] = c}) = 1
            /\ \E i \in DOMAIN last.log :
                   last.log[i][1] = c /\ last.log[i][2] = spanning_parent_[c]
            /\ spanning_parent_[c] \in ({last.parent} \cup last.children) \ {c}
            /\ spanning_parent_[c] # last.node
            /\ spanning_parent_[c] # NULL

\* A repair of a node with two children, one of them marked will_be_erased.
C8_Witness ==
    /\ last.op = "recover_spanning_connections"
    /\ fault = "none"
    /\ Cardinality(last.children) >= 2
    /\ \E c \in last.children : will_be_erased_[c]
    /\ \E c \in last.children : ~will_be_erased_[c] /\ spanning_parent_[c] = last.parent

\* C9: no step of the graph removes a keyframe from a node's loop_edges_, and
\* a keyframe whose node has a loop edge is marked not-to-be-erased in every
\* later state.
C9_LoopEdgePermanence ==
    [][\A k \in Keyfrms :
          /\ loop_edges_[k] \subseteq loop_edges_'[k]
          /\ (loop_edges_'[k] # {} => cannot_be_erased_'[k])]_vars

\* A node with a loop edge, after a later call of another operation.
C9_Witness ==
    /\ nops = 2
    /\ last.op \notin {"add_loop_edge", "none"}
    /\ last.node # NULL
    /\ loop_edges_[last.node] # {}

\* C10: after update_connections on a node that shares a landmark with some
\* keyframe, its connections map holds only the keyframes whose count is above
\* weight_thr_, or, when there is none, the single keyframe of highest count.
C10_ThresholdPolicy ==
    (last.op = "update_connections" /\ DOMAIN last.kw # {}) =>
        LET kw == last.kw
            cw == connected_keyfrms_and_weights_[last.node]
            above == {k \in DOMAIN kw : weight_thr_ < kw[k]}
        IN IF above # {} THEN DOMAIN cw = above
           ELSE \E k \in DOMAIN kw :
                    /\ DOMAIN cw = {k}
                    /\ \A j \in DOMAIN kw : kw[j] <= kw[k]

\* C6: no reachable state has a set of threads in which every thread waits
\* for a node mutex held by a thread of the set.
C6_NoCyclicWait ==
    \A S \in (SUBSET Threads) \ {{}} :
        ~(\A t \in S : Blocked(t) /\ mtx_[Wants(t)] \in S)

\* C7: a thread that holds the mutex of a node X is not about to invoke, or
\* blocked in, an operation that takes the mutex of another node Y.
C7_NonNestedLocking ==
    \A t \in Threads : \A X \in Held(t) : Wants(t) \notin Keyfrms \ {X}

\* C11: after update_connections on a node whose keyframe shares a landmark
\* with some other keyframe, get_covisibilities() of the node is non-empty,
\* also when no count exceeds weight_thr_.
C11_ConnectivityPreserved ==
    (last.op = "update_connections" /\ DOMAIN last.kw # {}) =>
        get_covisibilities(Graph, last.node) # <<>>

\* A recomputation in which no count exceeds the threshold.
C11_Witness ==
    /\ last.op = "update_connections"
    /\ Cardinality(DOMAIN last.kw) >= 2
    /\ \A k \in DOMAIN last.kw : last.kw[k] <= weight_thr_
    /\ Len(get_covisibilities(Graph, last.node)) = 1

\* C12: whenever find_via_ransac reports no valid solution, solution_is_valid_
\* is false and the outputs are rotation = identity, translation = zero
\* vector, scale = zero.
C12_FailureState ==
    (sim3_solver.pc = "returned" /\ ~sim3_solver.solution_is_valid_) =>
        /\ sim3_solver.best_rot_12_ = "Identity"
        /\ sim3_solver.best_trans_12_ = "Zero"
        /\ sim3_solver.best_scale_12_ = "Zero"

RECURSIVE MaxCount(_)
MaxCount(counts) ==
    IF counts = <<>> THEN 0
    ELSE LET rest == MaxCount(Tail(counts))
         IN IF Head(counts) > rest THEN Head(counts) ELSE rest

\* C13: find_via_ransac ends with solution_is_valid_ = true exactly when the
\* number of common points is at least 3 and at least min_num_inliers_, and
\* the maximum inlier count over all iterations is at least min_num_inliers_.
C13_AcceptanceGate ==
    sim3_solver.pc = "returned" =>
        (sim3_solver.solution_is_valid_ <=>
            /\ sim3_solver.num_common_pts_ >= 3
            /\ sim3_solver.num_common_pts_ >= sim3_solver.min_num_inliers_
            /\ MaxCount(sim3_solver.counts) >= sim3_solver.min_num_inliers_)

\* An accepted run whose best count just meets min_num_inliers_ and was not
\* the last one drawn.
C13_Witness ==
    /\ sim3_solver.pc = "returned"
    /\ sim3_solver.solution_is_valid_
    /\ Len(sim3_solver.counts) = MaxIter
    /\ MaxCount(sim3_solver.counts) = sim3_solver.min_num_inliers_
    /\ sim3_solver.counts[MaxIter] < sim3_solver.min_num_inliers_

\* C14: set_spanning_parent on a node that already has a spanning parent hits
\* the assertion and leaves the parent in place, and no operation other than
\* recover_spanning_connections replaces an assigned parent.
C14_SecondParentRejected ==
    [][/\ (last'.op = "set_spanning_parent" /\ spanning_parent_[last'.node] # NULL)
             => (fault' = "assertion"
                 /\ spanning_parent_'[last'.node] = spanning_parent_[last'.node])
       /\ \A k \in Keyfrms :
             (spanning_parent_[k] # NULL /\ spanning_parent_'[k] # spanning_parent_[k])
                 => last'.op = "recover_spanning_connections"]_vars

\* C15: after erase_all_connections on node A, A's connections map and
\* ordered lists are empty and no other node's connections map or ordered
\* neighbour list contains A's keyframe.
C15_TeardownCleanup ==
    last.op = "erase_all_connections" =>
        LET A == last.node
        IN /\ connected_keyfrms_and_weights_[A] = EmptyMap
           /\ ordered_covisibilities_[A] = <<>>
           /\ ordered_weights_[A] = <<>>
           /\ \A B \in Keyfrms \ {A} :
                 /\ A \notin DOMAIN connected_keyfrms_and_weights_[B]
                 /\ A \notin Range(ordered_covisibilities_[B])

\* the node whose state the thread's next step reads or writes without
\* acquiring that node's mutex, NULL when there is none
UnlockedAccess(t) ==
    IF threads[t].pc \in {"erase_all_loop", "erase_all_clear_covisibilities",
                          "erase_all_clear_weights"}
    THEN threads[t].node ELSE NULL

\* C16: every access to a node's state is made by a thread holding that node's
\* mutex, so no thread touches a node's state while another thread is inside a
\* critical section of that node's mutex.
C16_LockCoverage ==
    \A t \in Threads : \A u \in Threads \ {t} :
        UnlockedAccess(t) # NULL => mtx_[UnlockedAccess(t)] # u

\* C17: add_connection(k, w) on a node whose connections already map k to w
\* changes neither the connections map nor the ordered neighbour and weight
\* lists, and a second add_connection(k, w) right after the first leaves the
\* state the first one produced.
C17_AddConnectionIdempotent ==
    [][(last'.op = "add_connection" /\ nops' = nops + 1) =>
          LET A == last'.node
              k == last'.arg
              w == last'.weight
          IN /\ add_connection(Graph', A, k, w) = Graph'
             /\ (k \in DOMAIN connected_keyfrms_and_weights_[A]
                 /\ connected_keyfrms_and_weights_[A][k] = w) =>
                    /\ connected_keyfrms_and_weights_' = connected_keyfrms_and_weights_
                    /\ ordered_covisibilities_' = ordered_covisibilities_
                    /\ ordered_weights_' = ordered_weights_]_vars

C17_Witness ==
    /\ last.op = "add_connection"
    /\ last.before = last.weight
    /\ nops = MaxOps
    /\ connected_keyfrms_and_weights_[last.node][last.arg] = last.weight
    /\ last.arg \in Range(ordered_covisibilities_[last.node])

\* C18: get_top_n_covisibilities(N) returns the first min(N, size) entries of
\* ordered_covisibilities_ in order; when N exceeds the number of neighbours
\* it returns all of them.
C18_TopNIsPrefix ==
    last.op = "get_top_n_covisibilities" =>
        LET oc == ordered_covisibilities_[last.node]
            N == last.arg
        IN /\ Len(last.result) = (IF N < Len(oc) THEN N ELSE Len(oc))
           /\ \A i \in 1 .. Len(last.result) : last.result[i] = oc[i]
           /\ N > Len(oc) => last.result = oc

C18_Witness ==
    /\ last.op = "get_top_n_covisibilities"
    /\ Len(ordered_covisibilities_[last.node]) >= 2
    /\ last.arg > Len(ordered_covisibilities_[last.node])
    /\ last.result = ordered_covisibilities_[last.node]

C18_WitnessTruncated ==
    /\ last.op = "get_top_n_covisibilities"
    /\ last.arg >= 1
    /\ last.arg < Len(ordered_covisibilities_[last.node])
    /\ Len(last.result) = last.arg

\* C19: after any sequence of add_loop_edge calls, B is in A's loop_edges_
\* if and only if A is in B's loop_edges_.
C19_LoopEdgeSymmetry ==
    \A A \in Keyfrms : \A B \in Keyfrms :
        B \in get_loop_edges(Graph, A) <=> A \in get_loop_edges(Graph, B)

C21_ParentAssignedOnce ==
    [][(/\ last'.op = "update_connections"
        /\ nops' = nops + 1
        /\ spanning_parent_[last'.node] # NULL) =>
          /\ spanning_parent_'[last'.node] = spanning_parent_[last'.node]
          /\ \A k \in Keyfrms :
                last'.node \in spanning_children_'[k] => last'.node \in spanning_children_[k]]_vars

\* the children the while loop re-parented before round i
RepairedBefore(i) == {last.log[j][1] : j \in 1 .. (i - 1)}

\* the (pending child, candidate) pairs round i of the while loop chooses from
RepairPairs(i) ==
    {q \in (last.children \ RepairedBefore(i)) \X ({last.parent} \cup RepairedBefore(i)) :
        /\ ~will_be_erased_[q[1]]
        /\ q[2] \in Range(get_covisibilities(Graph, q[1]))}

\* C22: in each round of the while loop of recover_spanning_connections the
\* re-parented (child, candidate) pair has the maximum connection weight among
\* the pairs of a pending child not marked will_be_erased and a candidate in
\* that child's covisibility list, the candidates being the erased node's
\* parent and the children re-parented in earlier rounds; the child leaves
\* the pending set, and no child marked will_be_erased is chosen.
C22_GreedyRepair ==
    (last.op = "recover_spanning_connections" /\ fault = "none") =>
        \A i \in 1 .. last.rounds :
            LET c == last.log[i][1]
                p == last.log[i][2]
            IN /\ <<c, p>> \in RepairPairs(i)
               /\ \A q \in RepairPairs(i) :
                     get_weight(Graph, q[1], q[2]) <= get_weight(Graph, c, p)
               /\ c \notin RepairedBefore(i)
               /\ ~will_be_erased_[p] \/ p = last.parent

\* Two rounds: the second re-parents a child to the child of the first, and
\* the first round had pairs of different weight to choose from.
C22_Witness ==
    /\ last.op = "recover_spanning_connections"
    /\ fault = "none"
    /\ last.rounds >= 2
    /\ last.log[2][2] = last.log[1][1]
    /\ \E q \in RepairPairs(1) :
          get_weight(Graph, q[1], q[2]) < get_weight(Graph, last.log[1][1], last.log[1][2])

\* C23: recover_spanning_connections always terminates, after at most
\* (number of children + 1) rounds of the repair loop: no call stops on a
\* mutex its own thread holds, and the rounds stay within the bound.
C23_RecoverTerminates ==
    last.op = "recover_spanning_connections" =>
        /\ fault # "self_deadlock"
        /\ last.rounds <= Cardinality(last.children) + 1

\* find_via_ransac returns after exactly max_num_iter iterations, or after
\* none when the pre-check fails.
C23_RansacIterations ==
    sim3_solver.pc = "returned" =>
        sim3_solver.iter =
            (IF PreCheckFails(sim3_solver.num_common_pts_, sim3_solver.min_num_inliers_)
             THEN 0 ELSE sim3_solver.max_num_iter)

\* C24: count_inliers marks correspondence i as an inlier if and only if the
\* squared reprojection error in image 2 is strictly below
\* chi_sq_x_sigma_sq_2_[i] and the one in image 1 is strictly below
\* chi_sq_x_sigma_sq_1_[i]; the returned count is the number of marked entries.
C24_BidirectionalGate ==
    sim3_solver.pc = "counted" =>
        LET s == sim3_solver
        IN /\ Len(s.inliers) = s.num_common_pts_
           /\ \A i \in 1 .. s.num_common_pts_ :
                 s.inliers[i] <=> (/\ s.error_in_2[i] < s.chi_sq_x_sigma_sq_2_[i]
                                   /\ s.error_in_1[i] < s.chi_sq_x_sigma_sq_1_[i])
           /\ s.num_inliers = Cardinality({i \in 1 .. s.num_common_pts_ : s.inliers[i]})

\* One inlier, and one correspondence rejected only because its error in
\* image 1 equals the threshold.
C24_Witness ==
    /\ sim3_solver.pc = "counted"
    /\ sim3_solver.num_inliers = 1
    /\ \E i \in 1 .. sim3_solver.num_common_pts_ :
          /\ ~sim3_solver.inliers[i]
          /\ sim3_solver.error_in_2[i] < sim3_solver.chi_sq_x_sigma_sq_2_[i]
          /\ sim3_solver.error_in_1[i] = sim3_solver.chi_sq_x_sigma_sq_1_[i]

\* C25: whenever find_via_ransac returns with solution_is_valid_ = true, the
\* best rotation, translation and scale are the outputs of an iteration whose
\* inlier count is the maximum over all iterations, never the initial zero
\* rotation and zero scale.
C25_ValidCarriesTransform ==
    (sim3_solver.pc = "returned" /\ sim3_solver.solution_is_valid_) =>
        /\ sim3_solver.best_rot_12_ = "in_sac"
        /\ sim3_solver.best_trans_12_ = "in_sac"
        /\ sim3_solver.best_scale_12_ = "in_sac"
        /\ sim3_solver.best_iter \in 0 .. (Len(sim3_solver.counts) - 1)
        /\ sim3_solver.counts[sim3_solver.best_iter + 1] = MaxCount(sim3_solver.counts)

\* C26: for any interleaving of add_connection and erase_connection calls of
\* several threads on one node, once all calls have returned the ordered
\* neighbour and weight lists are an equal-length, descending listing of
\* exactly the entries of the connections map.
C26_QuiescentConsistency ==
    (\A t \in Threads : threads[t].pc = "idle") => OrderedCacheOf(SharedNode)

\* One call has returned, another is between its map update and its rebuild,
\* and the lists differ from the map.
C26_WindowOpen ==
    /\ \E t \in Threads : threads[t].pc = "update_covisibility_orders"
    /\ \E t \in Threads : threads[t].pc = "idle"
    /\ nops >= 2
    /\ ~OrderedCacheOf(SharedNode)
    /\ ordered_covisibilities_[SharedNode] # <<>>

\* All calls returned, the last rebuild made by a thread whose own map update
\* had been followed by another thread's before it rebuilt the lists.
C26_Witness ==
    /\ \A t \in Threads : threads[t].pc = "idle"
    /\ last.op = "update_covisibility_orders"
    /\ last.kw # connected_keyfrms_and_weights_[SharedNode]
    /\ Len(ordered_covisibilities_[SharedNode]) >= 2
    /\ OrderedCacheOf(SharedNode)

\* C27: whenever recover_spanning_connections runs on a node, the root and a
\* node that never got a parent included, spanning_parent_ is set: no absent
\* parent enters the candidate set, no child is re-parented to an absent
\* keyframe, and erase_spanning_child is called on an existing node.
C27_RepairParentPresent ==
    last.op = "recover_spanning_connections" =>
        /\ last.parent # NULL
        /\ \A i \in DOMAIN last.log : last.log[i][2] # NULL
        /\ fault # "null_dereference"

\* the landmark is one the scan counts for some keyframe other than A
SharedLive(lm, A) == ~lm.null /\ ~lm.will_be_erased /\ lm.observations \ {A} # {}

\* C28: update_connections on a node whose keyframe shares no live landmark
\* with any other keyframe leaves the node's connections map, its ordered
\* lists, its spanning parent and every other node's state as they were.
C28_NoSharedLandmarkNoOp ==
    [][(/\ last'.op = "update_connections"
        /\ nops' = nops + 1
        /\ \A i \in DOMAIN last'.landmarks : ~SharedLive(last'.landmarks[i], last'.node)) =>
          UNCHANGED graph_vars]_vars

\* A call on a node with recorded connections whose only landmark seen by
\* another keyframe is marked will_be_erased.
C28_Witness ==
    /\ last.op = "update_connections"
    /\ nops = MaxOps
    /\ \E i \in DOMAIN last.landmarks :
          /\ ~last.landmarks[i].null
          /\ last.landmarks[i].will_be_erased
          /\ last.landmarks[i].observations \ {last.node} # {}
    /\ \A i \in DOMAIN last.landmarks : ~SharedLive(last.landmarks[i], last.node)
    /\ connected_keyfrms_and_weights_[last.node] # EmptyMap
    /\ ordered_covisibilities_[last.node] # <<>>

\* the keypoint lies in the closed rectangle of the node
InPatch(node, keypt) ==
    /\ 2 * node.pt_begin_[1] <= keypt.x /\ keypt.x <= 2 * node.pt_end_[1]
    /\ 2 * node.pt_begin_[2] <= keypt.y /\ keypt.y <= 2 * node.pt_end_[2]

C30_AssertionHolds ==
    (last.op = "update_connections" /\ DOMAIN last.kw # {}) =>
        /\ ordered_covisibilities_[last.node] # <<>>
        /\ nearest_covisibility(last.kw) = Head(ordered_covisibilities_[last.node])
        /\ last.kw[nearest_covisibility(last.kw)] = Head(ordered_weights_[last.node])

\* Three keyframes tied at a maximum count above weight_thr_.
C30_Witness ==
    /\ last.op = "update_connections"
    /\ Cardinality(DOMAIN last.kw) = 3
    /\ \A k \in DOMAIN last.kw : last.kw[k] = MaxShared
    /\ Len(ordered_covisibilities_[last.node]) = 3
    /\ nearest_covisibility(last.kw) = Head(ordered_covisibilities_[last.node])

\* Two keyframes tied at a count that is not above weight_thr_.
C30_WitnessBelowThreshold ==
    /\ last.op = "update_connections"
    /\ Cardinality(DOMAIN last.kw) >= 2
    /\ \A k \in DOMAIN last.kw : last.kw[k] = weight_thr_
    /\ Len(ordered_covisibilities_[last.node]) = 1
    /\ nearest_covisibility(last.kw) = Head(ordered_covisibilities_[last.node])

====
